---- MODULE Spec2Model ----
(***************************************************************************)
(* Model of the QuillBlogEditor Vue component (src/QuillBlogEditor.vue)    *)
(* and of the playground's ImageHandler module                            *)
(* (playground/modules/ImageHandler.ts).                                  *)
(*                                                                         *)
(* The component and the module run on the browser's single thread: every *)
(* handler below is one atomic action.  The value `out' is the ordered    *)
(* list of the calls and emits the last handler made, `op' names that     *)
(* handler.                                                               *)
(***************************************************************************)
EXTENDS Integers, Sequences, FiniteSets, TLC

VARIABLES pc, hasContainer, modelValue, toolbar, options, quill, modules,
          doc, listeners, selection, parentContent, op, out, ready,
          savedRange, deletedUrls, pending,
          contextMenuEl, attachedMenus, selectedImgs

\* the playground's upload handler: the range captured by a pending upload
uploadVars == <<pending>>

\* the ImageHandler's context menu and the images carrying 'image-selected'
menuVars == <<contextMenuEl, attachedMenus, selectedImgs>>

vars == <<pc, hasContainer, modelValue, toolbar, options, quill, modules,
          doc, listeners, selection, parentContent, op, out, ready,
          savedRange, deletedUrls, pending,
          contextMenuEl, attachedMenus, selectedImgs>>

(***************************************************************************)
(* Bounds                                                                  *)
(***************************************************************************)
\* longest document (number of delta ops) the editor holds
MaxDoc == 2

(***************************************************************************)
(* Documents and HTML                                                      *)
(***************************************************************************)
Texts == {"a"}

ImageUrls == {"u1", "u2"}

Items == Texts \cup ImageUrls

Docs == UNION {[1..n -> Items] : n \in 0..MaxDoc}

\* An HTML string is abstracted as the document it parses to and whether it
\* is written the way the editor itself renders that document ("canon") or
\* in some other way ("raw": '' for the empty document, unwrapped text, ...).
Htmls == [doc : Docs, form : {"canon", "raw"}]

\* quill.root.innerHTML: the editor's own rendering of its contents
InnerHTML(d) == [doc |-> d, form |-> "canon"]

\* the delta clipboard.convert() yields for an HTML string
Convert(h) == h.doc

\* the HTML strings the parent supplies: '', unwrapped text, and renderings
\* the editor would produce itself
ParentHtmls == {[doc |-> <<>>, form |-> "raw"], [doc |-> <<"a">>, form |-> "raw"], [doc |-> <<"a">>, form |-> "canon"], [doc |-> <<"u1">>, form |-> "canon"], [doc |-> <<"u1", "u2">>, form |-> "canon"]}

\* props.modelValue || '' : the prop is a string, '' is the raw empty document
OrEmpty(h) == h

Range(s) == {s[i] : i \in 1..Len(s)}

(***************************************************************************)
(* Values of the module configuration.  Every value has the same shape so  *)
(* that any two of them can be compared.                                   *)
(***************************************************************************)
NoBindings == [k \in {} |-> ""]

Value(tag, s, a, b) == [tag |-> tag, s |-> s, a |-> a, b |-> b]

Str(s) == Value("string", s, <<>>, NoBindings)

Arr(a) == Value("array", "", a, NoBindings)

Obj(s) == Value("object", s, <<>>, NoBindings)

Fn(s) == Value("function", s, <<>>, NoBindings)

Undefined == Value("undefined", "", <<>>, NoBindings)

Keyboard(b) == Value("keyboard", "", <<>>, b)

\* JavaScript truthiness of the values above
Truthy(v) == v.tag \in {"array", "object", "function", "keyboard"} \/ (v.tag = "string" /\ v.s # "")

ArrayIsArray(v) == v.tag = "array"

(***************************************************************************)
(* Toolbar presets and the module merge of onMounted                       *)
(***************************************************************************)
TOOLBAR_PRESETS == [full |-> <<"header", "bold-italic-underline-strike", "list", "indent", "align", "blockquote-code", "link-image", "clean">>, basic |-> <<"bold-italic", "link">>]

\* members every JavaScript object literal inherits from Object.prototype
ObjectPrototypeKeys == {"constructor", "toString", "valueOf", "hasOwnProperty"}

\* TOOLBAR_PRESETS[name]: a property read on an object literal
PresetLookup(name) == IF name \in DOMAIN TOOLBAR_PRESETS THEN Arr(TOOLBAR_PRESETS[name]) ELSE IF name \in ObjectPrototypeKeys THEN Fn(name) ELSE Undefined

\* Array.isArray(props.toolbar) ? props.toolbar : TOOLBAR_PRESETS[props.toolbar] || TOOLBAR_PRESETS.full
DefaultToolbar(tb) == IF ArrayIsArray(tb) THEN tb ELSE IF Truthy(PresetLookup(tb.s)) THEN PresetLookup(tb.s) ELSE Arr(TOOLBAR_PRESETS.full)

DefaultKeyboard == Keyboard("shift+enter" :> "softBreakHandler")

\* the literal mergedModules starts from
DefaultModules(tb) == [k \in {"keyboard", "toolbar"} |-> IF k = "keyboard" THEN DefaultKeyboard ELSE DefaultToolbar(tb)]

\* mutant: the loop only adds modules, it does not replace a default one
MergeOthers_AddOnly(base, m) == [k \in DOMAIN base \cup (DOMAIN m \ {"toolbar"}) |-> IF k \in DOMAIN base THEN base[k] ELSE m[k]]

\* the loop over Object.keys(props.options.modules), which skips 'toolbar'
MergeOthers(base, m) == [k \in DOMAIN base \cup (DOMAIN m \ {"toolbar"}) |-> IF k \in DOMAIN m \ {"toolbar"} THEN m[k] ELSE base[k]]

\* if ('toolbar' in props.options.modules) mergedModules.toolbar = ...
MergeToolbar(merged, m) == IF "toolbar" \in DOMAIN m THEN [merged EXCEPT !["toolbar"] = m["toolbar"]] ELSE merged

\* mergedModules as handed to new Quill(); opt.present is the truthiness of
\* props.options.modules
mergedModules(tb, opt) == IF opt.present THEN MergeToolbar(MergeOthers(DefaultModules(tb), opt.m), opt.m) ELSE DefaultModules(tb)

(***************************************************************************)
(* Inputs: the props a caller may pass                                     *)
(***************************************************************************)
ToolbarProps == {Str("full"), Str("basic"), Str("fancy"), Str(""), Str("constructor"), Arr(<<"bold">>), Arr(<<>>)}

ModuleKeys == {"keyboard", "toolbar", "imageHandler"}

ModuleChoices(k) == IF k = "keyboard" THEN {Keyboard("tab" :> "callerTab"), Keyboard("shift+enter" :> "callerEnter")} ELSE IF k = "toolbar" THEN {Obj("callerToolbar"), Arr(<<"link">>)} ELSE {Obj("{}")}

AllChoices == UNION {ModuleChoices(k) : k \in ModuleKeys}

NoModules == [present |-> FALSE, m |-> [k \in {} |-> Undefined]]

CallerModules == {NoModules} \cup {[present |-> TRUE, m |-> f] : f \in UNION {{g \in [K -> AllChoices] : \A k \in K : g[k] \in ModuleChoices(k)} : K \in SUBSET ModuleKeys}}

\* the options of playground/App.vue
PlaygroundModules == [present |-> TRUE, m |-> [k \in {"imageHandler", "toolbar"} |-> IF k = "imageHandler" THEN Obj("{}") ELSE Obj("callerToolbar")]]

(***************************************************************************)
(* Calls and emits                                                         *)
(***************************************************************************)
\* the selection range null; any other range is its index
NullRange == -1

Ranges == {NullRange} \cup 0..MaxDoc

NoHtml == [doc |-> <<>>, form |-> "none"]

Entry(kind, html, arg, range) == [kind |-> kind, html |-> html, arg |-> arg, range |-> range]

Call(kind) == Entry(kind, NoHtml, "", NullRange)

\* ImageHandler.extractImageSources: the image URLs of a delta, in order,
\* one per image op
extractImageSources(delta) == LET IsImage(item) == item \in ImageUrls IN SelectSeq(delta, IsImage)

\* mutant: the filter missing, every image of the old document is deleted
deleted_NoFilter(oldDelta, contents) == extractImageSources(oldDelta)

\* oldImages.filter(url => !newImages.includes(url))
deleted(oldDelta, contents) == LET newImages == extractImageSources(contents) Gone(url) == url \notin Range(newImages) IN SelectSeq(extractImageSources(oldDelta), Gone)

\* the text-change listener of the ImageHandler constructor
ImageHandlerTextChange(oldDelta, contents) == [i \in 1..Len(deleted(oldDelta, contents)) |-> Entry("ImageService.delete", NoHtml, deleted(oldDelta, contents)[i], NullRange)]

\* mutant: the two emits of the listener in the other order
ComponentTextChange_Swapped(contents) == <<Call("emit:text-change"), Entry("emit:update:modelValue", InnerHTML(contents), "", NullRange)>>

\* mutant: the payload is not the editor's own rendering of the contents
ComponentTextChange_OtherHtml(contents) == <<Entry("emit:update:modelValue", [doc |-> contents, form |-> "raw"], "", NullRange), Call("emit:text-change")>>

\* the component's text-change listener
ComponentTextChange(contents) == <<Entry("emit:update:modelValue", InnerHTML(contents), "", NullRange), Call("emit:text-change")>>

\* mutant: the listener without the test for a null range
ComponentSelectionChange_AlwaysFocus(range) == <<Call("emit:focus")>>

\* the component's selection-change listener
ComponentSelectionChange(range) == IF range = NullRange THEN <<Call("emit:blur")>> ELSE <<Call("emit:focus")>>

\* Quill's emitter runs the listeners of an event in registration order
RECURSIVE Dispatch(_, _, _)
Dispatch(ls, oldDelta, contents) == IF ls = <<>> THEN <<>> ELSE (IF Head(ls) = "ImageHandler:text-change" THEN ImageHandlerTextChange(oldDelta, contents) ELSE IF Head(ls) = "component:text-change" THEN ComponentTextChange(contents) ELSE <<>>) \o Dispatch(Tail(ls), oldDelta, contents)

\* one 'text-change' notification of the editor
TextChange(ls, oldDelta, contents) == <<Entry("notify:text-change", InnerHTML(contents), "", NullRange)>> \o Dispatch(ls, oldDelta, contents)

\* one 'selection-change' notification of the editor
SelectionChangeEvent(ls, range) == <<Entry("notify:selection-change", NoHtml, "", range)>> \o (IF "component:selection-change" \in Range(ls) THEN ComponentSelectionChange(range) ELSE <<>>)

\* quill.clipboard.dangerouslyPasteHTML(html): the contents become the
\* converted HTML; Quill notifies when the resulting change is not empty
\* (fires), which it always is when the contents differ
Fires(oldDelta, html) == IF Convert(html) = oldDelta THEN BOOLEAN ELSE {TRUE}

dangerouslyPasteHTML(ls, oldDelta, html, fires) == <<Entry("dangerouslyPasteHTML", html, "", NullRange)>> \o (IF fires THEN TextChange(ls, oldDelta, Convert(html)) ELSE <<>>)

\* a parent bound with v-model stores every 'update:modelValue' payload
RECURSIVE VModel(_, _)
VModel(o, content) == IF o = <<>> THEN content ELSE VModel(Tail(o), IF Head(o).kind = "emit:update:modelValue" THEN Head(o).html ELSE content)

Kinds(o) == [i \in 1..Len(o) |-> o[i].kind]

\* the URLs ImageService.delete was called with among the calls o
Issued(o) == {o[i].arg : i \in {j \in 1..Len(o) : o[j].kind = "ImageService.delete"}}

\* no upload is pending
NoUpload == -1

(***************************************************************************)
(* The component                                                           *)
(***************************************************************************)
NoConfig == [k \in {} |-> Undefined]

TypeOK ==
    /\ pc \in {"setup", "mounted", "returned"}
    /\ hasContainer \in BOOLEAN
    /\ modelValue \in Htmls
    /\ parentContent \in Htmls
    /\ quill \in {"null", "quill"}
    /\ doc \in Docs
    /\ selection \in Ranges
    /\ selection <= Len(doc)
    /\ savedRange \in 0..Len(doc)
    /\ Len(ready) <= 1
    /\ deletedUrls \subseteq ImageUrls

InitWith(tbs, opts) ==
    /\ pc = "setup"
    /\ hasContainer \in BOOLEAN
    /\ modelValue \in ParentHtmls
    /\ parentContent = modelValue
    /\ toolbar \in tbs
    /\ options \in opts
    /\ quill = "null"
    /\ modules = NoConfig
    /\ doc = <<>>
    /\ listeners = <<>>
    /\ selection = NullRange
    /\ op = "setup"
    /\ out = <<>>
    /\ ready = <<>>
    /\ savedRange = 0
    /\ deletedUrls = {}
    /\ pending = NoUpload
    /\ contextMenuEl = "null"
    /\ attachedMenus = 0
    /\ selectedImgs = {}

Init == InitWith({Str("full")}, {NoModules, PlaygroundModules})

\* onMounted, container missing: if (!editorContainer.value) return
MountReturn ==
    /\ pc = "setup"
    /\ ~hasContainer
    /\ pc' = "returned"
    /\ op' = "onMounted"
    /\ out' = <<>>
    /\ UNCHANGED <<hasContainer, modelValue, toolbar, options, quill, modules, doc, listeners, selection, parentContent, ready, savedRange, deletedUrls, uploadVars, menuVars>>

\* mutant: 'ready' emitted right after the editor is created
MountCalls_ReadyFirst(ls, html, fires) == <<Call("new Quill"), Entry("emit:ready", NoHtml, "quill", NullRange)>> \o dangerouslyPasteHTML(ls, <<>>, html, fires) \o <<Call("on:text-change"), Call("on:selection-change")>>

\* mutant: the listeners registered before the initial content is loaded
MountCalls_ListenersFirst(ls, html, fires) == <<Call("new Quill"), Call("on:text-change"), Call("on:selection-change")>> \o dangerouslyPasteHTML(ls \o <<"component:text-change">>, <<>>, html, fires) \o <<Entry("emit:ready", NoHtml, "quill", NullRange)>>

\* the calls of onMounted from new Quill() on, in program order; the editor
\* starts with empty contents
MountCalls(ls, html, fires) == <<Call("new Quill")>> \o dangerouslyPasteHTML(ls, <<>>, html, fires) \o <<Call("on:text-change"), Call("on:selection-change"), Entry("emit:ready", NoHtml, "quill", NullRange)>>

\* the payloads of the 'ready' emits among the calls o
ReadyPayloads(o) == LET IsReady(e) == e.kind = "emit:ready" S == SelectSeq(o, IsReady) IN [i \in 1..Len(S) |-> S[i].arg]

\* onMounted, after nextTick: build the module configuration, create the
\* editor (its modules are constructed with it), load the initial content,
\* register the listeners, emit 'ready'
MountCreate ==
    /\ pc = "setup"
    /\ hasContainer
    /\ \E fires \in Fires(<<>>, OrEmpty(modelValue)) :
        LET mm == mergedModules(toolbar, options)
            ls == IF "imageHandler" \in DOMAIN mm THEN <<"ImageHandler:text-change">> ELSE <<>>
            o == MountCalls(ls, OrEmpty(modelValue), fires)
        IN  /\ modules' = mm
            /\ quill' = "quill"
            /\ doc' = Convert(OrEmpty(modelValue))
            /\ listeners' = ls \o <<"component:text-change", "component:selection-change">>
            /\ out' = o
            /\ ready' = ready \o ReadyPayloads(o)
            /\ parentContent' = VModel(o, parentContent)
            /\ deletedUrls' = deletedUrls \cup Issued(o)
    /\ selection' = 0
    /\ savedRange' = 0
    /\ pc' = "mounted"
    /\ op' = "onMounted"
    /\ UNCHANGED <<hasContainer, modelValue, toolbar, options, uploadVars, menuVars>>

\* the parent assigns the bound content from outside the editor
ExternalSet ==
    /\ \E h \in ParentHtmls : h # parentContent /\ parentContent' = h
    /\ op' = "external"
    /\ out' = <<>>
    /\ UNCHANGED <<pc, hasContainer, modelValue, toolbar, options, quill, modules, doc, listeners, selection, ready, savedRange, deletedUrls, uploadVars, menuVars>>

\* mutant: the watcher without the comparison against the editor's HTML
NeedsPaste_NoCompare(q, newVal, d) == q # "null"

\* the watcher's two tests: if (!quill) return; if (newVal !== quill.root.innerHTML)
NeedsPaste(q, newVal, d) == q # "null" /\ newVal # InnerHTML(d)

\* the parent re-renders with changed content: the prop changes and the
\* watcher on props.modelValue runs
WatchModelValue ==
    /\ parentContent # modelValue
    /\ modelValue' = parentContent
    /\ IF NeedsPaste(quill, parentContent, doc)
       THEN \E fires \in Fires(doc, OrEmpty(parentContent)) :
                /\ out' = dangerouslyPasteHTML(listeners, doc, OrEmpty(parentContent), fires)
                /\ doc' = Convert(OrEmpty(parentContent))
                /\ parentContent' = VModel(out', parentContent)
                /\ selection' = 0
                /\ savedRange' = 0
       ELSE out' = <<>> /\ UNCHANGED <<doc, parentContent, selection, savedRange>>
    /\ deletedUrls' = deletedUrls \cup Issued(out')
    /\ op' = "watch"
    /\ UNCHANGED <<pc, hasContainer, toolbar, options, quill, modules, listeners, ready, uploadVars, menuVars>>

\* what one user input at the cursor can make of the contents and the
\* cursor: one op typed or inserted, the op before the cursor deleted, or
\* everything selected and deleted
InsertAt(d, i, item) == SubSeq(d, 1, i) \o <<item>> \o SubSeq(d, i + 1, Len(d))

RemoveAt(d, i) == SubSeq(d, 1, i - 1) \o SubSeq(d, i + 1, Len(d))

Edits(d, cursor) == {[doc |-> InsertAt(d, cursor, item), cursor |-> cursor + 1] : item \in {x \in Items : Len(d) < MaxDoc}} \cup {[doc |-> RemoveAt(d, cursor), cursor |-> cursor - 1] : x \in {y \in {cursor} : y >= 1}} \cup {[doc |-> <<>>, cursor |-> 0] : x \in {y \in {d} : y # <<>>}}

\* the user changes the contents in the editor; the parent's pending
\* re-render, a microtask, has run before any user input is handled
UserEdit ==
    /\ quill # "null"
    /\ parentContent = modelValue
    /\ selection # NullRange
    /\ \E e \in Edits(doc, selection) :
        /\ doc' = e.doc
        /\ selection' = e.cursor
        /\ savedRange' = e.cursor
        /\ out' = TextChange(listeners, doc, e.doc)
    /\ parentContent' = VModel(out', parentContent)
    /\ deletedUrls' = deletedUrls \cup Issued(out')
    /\ op' = "edit"
    /\ UNCHANGED <<pc, hasContainer, modelValue, toolbar, options, quill, modules, listeners, ready, uploadVars, menuVars>>

\* the selection moves inside the contents, or the editor loses focus (range
\* null); Quill keeps the last range it had as savedRange
SelectionChange ==
    /\ quill # "null"
    /\ \E r \in {NullRange} \cup 0..Len(doc) :
        /\ r # selection
        /\ selection' = r
        /\ savedRange' = (IF r = NullRange THEN savedRange ELSE r)
        /\ out' = SelectionChangeEvent(listeners, r)
    /\ op' = "select"
    /\ UNCHANGED <<pc, hasContainer, modelValue, toolbar, options, quill, modules, doc, listeners, parentContent, ready, deletedUrls, uploadVars, menuVars>>

(***************************************************************************)
(* The playground's custom image handler (App.vue)                         *)
(***************************************************************************)
Min(a, b) == IF a < b THEN a ELSE b

\* the toolbar whose handlers.image is customImageHandler is installed
HasCustomImageHandler == quill # "null" /\ "toolbar" \in DOMAIN modules /\ modules["toolbar"] = Obj("callerToolbar")

\* quill.getSelection(true): focuses the editor, which restores Quill's saved
\* range and notifies when the editor had no selection, and returns the range
GetSelectionFocus(ls, sel, saved) == [range |-> (IF sel = NullRange THEN saved ELSE sel), out |-> <<Entry("getSelection", NoHtml, "true", NullRange)>> \o (IF sel = NullRange THEN SelectionChangeEvent(ls, saved) ELSE <<>>)]

\* input.onchange without a file: if (!file) return
ChangeWithoutFile ==
    /\ HasCustomImageHandler
    /\ parentContent = modelValue
    /\ op' = "onchange"
    /\ out' = <<>>
    /\ UNCHANGED <<pc, hasContainer, modelValue, toolbar, options, quill, modules, doc, listeners, selection, parentContent, ready, savedRange, deletedUrls, uploadVars, menuVars>>

\* input.onchange with a file, up to the await: the range is read and the
\* upload starts
FileChosen ==
    /\ HasCustomImageHandler
    /\ parentContent = modelValue
    /\ pending = NoUpload
    /\ LET g == GetSelectionFocus(listeners, selection, savedRange)
       IN  /\ selection' = g.range
           /\ savedRange' = g.range
           /\ pending' = g.range
           /\ out' = g.out \o <<Entry("ImageService.upload", NoHtml, "file", NullRange)>>
    /\ op' = "onchange"
    /\ UNCHANGED <<pc, hasContainer, modelValue, toolbar, options, quill, modules, doc, listeners, parentContent, ready, deletedUrls, menuVars>>

\* input.onchange after the await, upload fulfilled with imageUrl:
\* insertEmbed(range.index, 'image', imageUrl, 'user'), which Quill applies at
\* the end of the contents when the index lies beyond it, then
\* setSelection(range.index + 1), which Quill clamps to the contents
UploadFulfilled(ls, d, sel, index, imageUrl) ==
    LET contents == InsertAt(d, Min(index, Len(d)), imageUrl)
        range == Min(index + 1, Len(contents))
    IN  [doc |-> contents, selection |-> range, out |-> <<Entry("insertEmbed", NoHtml, imageUrl, index)>> \o TextChange(ls, d, contents) \o <<Entry("setSelection", NoHtml, "", index + 1)>> \o (IF range # sel THEN SelectionChangeEvent(ls, range) ELSE <<>>)]

\* mutant: the rejection caught and the handler carrying on with a fallback URL
UploadRejected_Swallowed(ls, d, sel, index) == UploadFulfilled(ls, d, sel, index, "u1")

\* input.onchange after the await, upload rejected: the await throws, the
\* rest of the handler does not run and its promise rejects
UploadRejected(ls, d, sel, index) == [doc |-> d, selection |-> sel, out |-> <<Entry("reject:onchange", NoHtml, "", NullRange)>>]

UploadResolve ==
    /\ pending # NoUpload
    /\ parentContent = modelValue
    /\ Len(doc) < MaxDoc
    /\ \E imageUrl \in ImageUrls :
        LET r == UploadFulfilled(listeners, doc, selection, pending, imageUrl)
        IN  /\ doc' = r.doc
            /\ selection' = r.selection
            /\ savedRange' = r.selection
            /\ out' = r.out
    /\ parentContent' = VModel(out', parentContent)
    /\ deletedUrls' = deletedUrls \cup Issued(out')
    /\ pending' = NoUpload
    /\ op' = "uploadFulfilled"
    /\ UNCHANGED <<pc, hasContainer, modelValue, toolbar, options, quill, modules, listeners, ready, menuVars>>

UploadReject ==
    /\ pending # NoUpload
    /\ parentContent = modelValue
    /\ LET r == UploadRejected(listeners, doc, selection, pending)
       IN  /\ doc' = r.doc
           /\ selection' = r.selection
           /\ savedRange' = (IF r.selection = NullRange THEN savedRange ELSE r.selection)
           /\ out' = r.out
    /\ parentContent' = VModel(out', parentContent)
    /\ deletedUrls' = deletedUrls \cup Issued(out')
    /\ pending' = NoUpload
    /\ op' = "uploadRejected"
    /\ UNCHANGED <<pc, hasContainer, modelValue, toolbar, options, quill, modules, listeners, ready, menuVars>>

Next == MountReturn \/ MountCreate \/ ExternalSet \/ WatchModelValue \/ UserEdit \/ SelectionChange \/ ChangeWithoutFile \/ FileChosen \/ UploadResolve \/ UploadReject

Spec == Init /\ [][Next]_vars

(***************************************************************************)
(* The soft-break handler bound to shift+enter                             *)
(***************************************************************************)
\* what quill.getLeaf(index)[0] can be: null, or a leaf, told apart by the
\* block that is its parent
Leaves == {"null", "p1", "p2"}

ReturnFalse == Entry("return", NoHtml, "false", NullRange)

\* mutant: the second embed inserted whenever the current leaf exists
SecondBreak_NoNextLeafTest(currentLeaf, nextLeaf) == currentLeaf # "null"

\* the test that guards the second insertEmbed
SecondBreak(currentLeaf, nextLeaf) == currentLeaf # "null" /\ (nextLeaf = "null" \/ currentLeaf # nextLeaf)

\* softBreakHandler(range, context) on an editor q with contents d; the two
\* leaves are what getLeaf returns before anything is inserted
softBreakHandler(q, range, currentLeaf, nextLeaf, ls, d, sel) ==
    IF q = "null" \/ range = NullRange
    THEN [doc |-> d, selection |-> sel, out |-> <<Entry("softBreakHandler", NoHtml, "", range), ReturnFalse>>]
    ELSE LET first == InsertAt(d, range, "br")
             second == IF SecondBreak(currentLeaf, nextLeaf) THEN InsertAt(first, range, "br") ELSE first
         IN  [doc |-> second, selection |-> range + 1,
              out |-> <<Entry("softBreakHandler", NoHtml, "", range), Entry("getLeaf", NoHtml, currentLeaf, range), Entry("getLeaf", NoHtml, nextLeaf, range + 1), Entry("insertEmbed", NoHtml, "br", range)>>
                      \o TextChange(ls, d, first)
                      \o (IF SecondBreak(currentLeaf, nextLeaf) THEN <<Entry("insertEmbed", NoHtml, "br", range)>> \o TextChange(ls, first, second) ELSE <<>>)
                      \o <<Entry("setSelection", NoHtml, "silent", range + 1), ReturnFalse>>]

\* the handler is called: by Quill's keyboard module with the selection, or
\* by any other caller with any range, also before the editor exists
SoftBreak ==
    /\ parentContent = modelValue
    /\ Len(doc) <= MaxDoc
    /\ \E range \in {NullRange} \cup 0..Len(doc), currentLeaf \in Leaves, nextLeaf \in Leaves :
        LET r == softBreakHandler(quill, range, currentLeaf, nextLeaf, listeners, doc, selection)
        IN  /\ doc' = r.doc
            /\ selection' = r.selection
            /\ savedRange' = (IF r.selection = NullRange THEN savedRange ELSE r.selection)
            /\ out' = r.out
    /\ parentContent' = VModel(out', parentContent)
    /\ deletedUrls' = deletedUrls \cup Issued(out')
    /\ op' = "softBreak"
    /\ UNCHANGED <<pc, hasContainer, modelValue, toolbar, options, quill, modules, listeners, ready, uploadVars, menuVars>>

NextSoftBreak == MountReturn \/ MountCreate \/ WatchModelValue \/ SelectionChange \/ SoftBreak

SpecSoftBreak == Init /\ [][NextSoftBreak]_vars

(***************************************************************************)
(* The ImageHandler's click handlers and context menu                     *)
(***************************************************************************)
\* the img elements of the editor, named by the position of their op
ImgElements(d) == {i \in 1..Len(d) : d[i] \in ImageUrls}

\* closeContextMenu: the element is removed from the page and forgotten
closeContextMenu(el, attached) == IF el # "null" THEN [el |-> "null", attached |-> attached - 1] ELSE [el |-> el, attached |-> attached]

\* openContextMenu: closes the open menu, appends a new one to document.body
openContextMenu(el, attached) == [el |-> "menu", attached |-> closeContextMenu(el, attached).attached + 1]

\* the editor's click listener exists once the ImageHandler is constructed
ImageHandlerConstructed == quill # "null" /\ "imageHandler" \in DOMAIN modules

\* click on an img of the editor: the editor listener selects it, stops the
\* propagation and opens the menu; the document listener does not run
ClickImage ==
    /\ ImageHandlerConstructed
    /\ \E img \in ImgElements(doc) :
        /\ selectedImgs' = {img}
        /\ out' = <<Entry("click", NoHtml, "img", img)>>
    /\ contextMenuEl' = openContextMenu(contextMenuEl, attachedMenus).el
    /\ attachedMenus' = openContextMenu(contextMenuEl, attachedMenus).attached
    /\ op' = "click:image"
    /\ UNCHANGED <<pc, hasContainer, modelValue, toolbar, options, quill, modules, doc, listeners, selection, parentContent, ready, savedRange, deletedUrls, uploadVars>>

\* click on editor content that is not an img: the editor listener deselects
\* and closes the menu; the document listener then finds no menu
ClickEditor ==
    /\ ImageHandlerConstructed
    /\ selectedImgs' = {}
    /\ contextMenuEl' = closeContextMenu(contextMenuEl, attachedMenus).el
    /\ attachedMenus' = closeContextMenu(contextMenuEl, attachedMenus).attached
    /\ out' = <<Entry("click", NoHtml, "editor", NullRange)>>
    /\ op' = "click:editor"
    /\ UNCHANGED <<pc, hasContainer, modelValue, toolbar, options, quill, modules, doc, listeners, selection, parentContent, ready, savedRange, deletedUrls, uploadVars>>

\* click on a button of the menu: btn.onclick stops the propagation, adjusts
\* the size class of the selected image and closes the menu
ClickMenuButton ==
    /\ ImageHandlerConstructed
    /\ contextMenuEl # "null"
    /\ \E size \in {"small", "medium", "large"} : out' = <<Entry("click", NoHtml, size, NullRange)>>
    /\ contextMenuEl' = closeContextMenu(contextMenuEl, attachedMenus).el
    /\ attachedMenus' = closeContextMenu(contextMenuEl, attachedMenus).attached
    /\ op' = "click:button"
    /\ UNCHANGED <<pc, hasContainer, modelValue, toolbar, options, quill, modules, doc, listeners, selection, parentContent, ready, savedRange, deletedUrls, uploadVars, selectedImgs>>

\* the document's click listener for a target inside (TRUE) or outside the
\* open menu
DocumentClick(el, attached, selected, inMenu) == IF el # "null" /\ ~inMenu THEN [el |-> closeContextMenu(el, attached).el, attached |-> closeContextMenu(el, attached).attached, selected |-> {}] ELSE [el |-> el, attached |-> attached, selected |-> selected]

\* click inside the menu but on none of its buttons: only the document
\* listener runs
ClickMenu ==
    /\ ImageHandlerConstructed
    /\ contextMenuEl # "null"
    /\ contextMenuEl' = DocumentClick(contextMenuEl, attachedMenus, selectedImgs, TRUE).el
    /\ attachedMenus' = DocumentClick(contextMenuEl, attachedMenus, selectedImgs, TRUE).attached
    /\ selectedImgs' = DocumentClick(contextMenuEl, attachedMenus, selectedImgs, TRUE).selected
    /\ out' = <<Entry("click", NoHtml, "menu", NullRange)>>
    /\ op' = "click:menu"
    /\ UNCHANGED <<pc, hasContainer, modelValue, toolbar, options, quill, modules, doc, listeners, selection, parentContent, ready, savedRange, deletedUrls, uploadVars>>

\* click elsewhere in the document, outside the editor and the menu: only
\* the document listener runs
ClickOutside ==
    /\ ImageHandlerConstructed
    /\ contextMenuEl' = DocumentClick(contextMenuEl, attachedMenus, selectedImgs, FALSE).el
    /\ attachedMenus' = DocumentClick(contextMenuEl, attachedMenus, selectedImgs, FALSE).attached
    /\ selectedImgs' = DocumentClick(contextMenuEl, attachedMenus, selectedImgs, FALSE).selected
    /\ out' = <<Entry("click", NoHtml, "document", NullRange)>>
    /\ op' = "click:outside"
    /\ UNCHANGED <<pc, hasContainer, modelValue, toolbar, options, quill, modules, doc, listeners, selection, parentContent, ready, savedRange, deletedUrls, uploadVars>>

NextMenu == MountReturn \/ MountCreate \/ SelectionChange \/ ClickImage \/ ClickEditor \/ ClickMenuButton \/ ClickMenu \/ ClickOutside

SpecMenu == Init /\ [][NextMenu]_vars

\* a mount with every toolbar prop and module configuration a caller may pass
InitConfig == InitWith(ToolbarProps, CallerModules) /\ modelValue = [doc |-> <<"a">>, form |-> "canon"]

NextConfig == MountReturn \/ MountCreate

SpecConfig == InitConfig /\ [][NextConfig]_vars

(***************************************************************************)
(* Helpers of the properties                                               *)
(***************************************************************************)
OfKind(o, kinds) == LET Is(e) == e.kind \in kinds IN SelectSeq(o, Is)

Pastes(o) == [i \in 1..Len(OfKind(o, {"dangerouslyPasteHTML"})) |-> OfKind(o, {"dangerouslyPasteHTML"})[i].html]

Deletes(o) == [i \in 1..Len(OfKind(o, {"ImageService.delete"})) |-> OfKind(o, {"ImageService.delete"})[i].arg]

Notifications == {"notify:text-change", "notify:selection-change"}

\* the calls made while the notification at position i of o is handled
SegmentEnd(o, i) == IF \E j \in (i + 1)..Len(o) : o[j].kind \in Notifications THEN (CHOOSE j \in (i + 1)..Len(o) : o[j].kind \in Notifications /\ \A k \in (i + 1)..(j - 1) : o[k].kind \notin Notifications) - 1 ELSE Len(o)

Segment(o, i) == SubSeq(o, i + 1, SegmentEnd(o, i))

Position(o, kind) == CHOOSE i \in 1..Len(o) : o[i].kind = kind

Images(d) == {d[i] : i \in {j \in 1..Len(d) : d[j] \in ImageUrls}}

CallerKeys == IF options.present THEN DOMAIN options.m ELSE {}

(***************************************************************************)
(* C1: once the editor instance exists, a change of the modelValue prop    *)
(* calls dangerouslyPasteHTML, once and with the new value, exactly when   *)
(* the new value differs from quill.root.innerHTML; when they are equal,   *)
(* and before the instance exists, a prop change calls nothing.            *)
(***************************************************************************)
C1_WatchPastesIffDifferent == [][modelValue' # modelValue => Pastes(out') = (IF quill # "null" /\ modelValue' # InnerHTML(doc) THEN <<modelValue'>> ELSE <<>>)]_vars

C1_Witness == op = "watch" /\ quill # "null" /\ Pastes(out) = <<modelValue>>

(***************************************************************************)
(* C2: for every text-change notification after mount the component emits  *)
(* one update:modelValue whose payload is the editor's HTML at that moment *)
(* and then one text-change, and emits neither without a notification.     *)
(***************************************************************************)
ComponentEmits == {"emit:update:modelValue", "emit:text-change"}

C2_TextChangeEmits ==
    /\ \A i \in 1..Len(out) : (out[i].kind = "notify:text-change" /\ op # "onMounted") => OfKind(Segment(out, i), ComponentEmits) = <<Entry("emit:update:modelValue", out[i].html, "", NullRange), Call("emit:text-change")>>
    /\ \A j \in 1..Len(out) : out[j].kind \in ComponentEmits => \E i \in 1..(j - 1) : out[i].kind = "notify:text-change"
    /\ (op # "onMounted" /\ OfKind(out, {"emit:update:modelValue"}) # <<>>) => VModel(out, NoHtml) = InnerHTML(doc)

C2_Witness == op = "edit" /\ Kinds(OfKind(out, ComponentEmits)) = <<"emit:update:modelValue", "emit:text-change">> /\ doc # <<>>

(***************************************************************************)
(* C3: for every selection-change notification the component emits exactly *)
(* one of focus and blur: blur exactly when the range is null, focus for   *)
(* any other range, also when the previous range was not null either.      *)
(***************************************************************************)
C3_FocusOrBlur == \A i \in 1..Len(out) : out[i].kind = "notify:selection-change" => (out[i].range = selection /\ Kinds(OfKind(Segment(out, i), {"emit:focus", "emit:blur"})) = (IF out[i].range = NullRange THEN <<"emit:blur">> ELSE <<"emit:focus">>))

\* a move from one range inside the editor to another emits focus again
C3_Witness == op = "select" /\ selection = 1 /\ Kinds(out) = <<"notify:selection-change", "emit:focus">>

(***************************************************************************)
(* C4: a mount whose container exists emits ready exactly once, carrying   *)
(* the editor instance it created, after the initial modelValue was loaded *)
(* and both listeners were registered; a mount whose container is missing  *)
(* creates no editor and never emits ready.                                *)
(***************************************************************************)
C4_ReadyOnceAfterSetup ==
    /\ pc = "setup" => (ready = <<>> /\ quill = "null")
    /\ pc = "returned" => (ready = <<>> /\ quill = "null" /\ ~hasContainer)
    /\ pc = "mounted" => (hasContainer /\ quill # "null" /\ ready = <<quill>>)
    /\ OfKind(out, {"emit:ready"}) # <<>> => op = "onMounted"
    /\ (op = "onMounted" /\ pc = "mounted") =>
        /\ Len(OfKind(out, {"emit:ready"})) = 1
        /\ Pastes(out) = <<modelValue>>
        /\ Position(out, "new Quill") < Position(out, "dangerouslyPasteHTML")
        /\ Position(out, "dangerouslyPasteHTML") < Position(out, "emit:ready")
        /\ Position(out, "on:text-change") < Position(out, "emit:ready")
        /\ Position(out, "on:selection-change") < Position(out, "emit:ready")
        /\ {"component:text-change", "component:selection-change"} \subseteq Range(listeners)

C4_Witness == op = "onMounted" /\ pc = "mounted" /\ ready = <<"quill">> /\ doc # <<>>

(***************************************************************************)
(* C5: once every notification has been handled and the v-model parent has *)
(* applied every emitted payload (no re-render is pending), modelValue     *)
(* equals the editor's current HTML.                                       *)
(***************************************************************************)
C5_MirrorEqualsEditor == (pc = "mounted" /\ parentContent = modelValue) => modelValue = InnerHTML(doc)

(***************************************************************************)
(* C6: the module configuration passed to the editor is an override-by-key *)
(* merge: every key of options.modules carries the caller's value, every   *)
(* default key (keyboard, toolbar) the caller does not supply keeps its    *)
(* default value, and no other key appears.                                *)
(***************************************************************************)
C6_OverrideByKey == pc = "mounted" =>
    /\ DOMAIN modules = {"keyboard", "toolbar"} \cup CallerKeys
    /\ \A k \in CallerKeys : modules[k] = options.m[k]
    /\ "keyboard" \notin CallerKeys => modules["keyboard"] = Keyboard("shift+enter" :> "softBreakHandler")
    /\ "toolbar" \notin CallerKeys => modules["toolbar"] = DefaultToolbar(toolbar)

C6_Witness == pc = "mounted" /\ CallerKeys = {"keyboard", "imageHandler"} /\ modules["keyboard"] = Keyboard("tab" :> "callerTab") /\ modules["toolbar"] = Arr(TOOLBAR_PRESETS.basic)

(***************************************************************************)
(* C7: the toolbar passed to the editor is the caller's                    *)
(* options.modules.toolbar whenever that key is defined; otherwise the     *)
(* toolbar prop when it is an array; otherwise the preset the prop names   *)
(* ('full' or 'basic'); otherwise, for any other string, the 'full'        *)
(* preset.                                                                 *)
(***************************************************************************)
C7_ToolbarResolution == pc = "mounted" => modules["toolbar"] =
    (IF "toolbar" \in CallerKeys THEN options.m["toolbar"]
     ELSE IF toolbar.tag = "array" THEN toolbar
     ELSE IF toolbar.s = "full" THEN Arr(TOOLBAR_PRESETS.full)
     ELSE IF toolbar.s = "basic" THEN Arr(TOOLBAR_PRESETS.basic)
     ELSE Arr(TOOLBAR_PRESETS.full))

(***************************************************************************)
(* C8: the default shift+enter soft-break binding is in the keyboard       *)
(* configuration passed to the editor for every caller configuration that  *)
(* does not itself define a shift+enter binding, also when the caller      *)
(* supplies a keyboard module with other bindings.                         *)
(***************************************************************************)
CallerDefinesShiftEnter == "keyboard" \in CallerKeys /\ "shift+enter" \in DOMAIN options.m["keyboard"].b

C8_SoftBreakBindingKept == (pc = "mounted" /\ ~CallerDefinesShiftEnter) => ("shift+enter" \in DOMAIN modules["keyboard"].b /\ modules["keyboard"].b["shift+enter"] = "softBreakHandler")

(***************************************************************************)
(* C9: on each content-change notification the image module calls delete   *)
(* for every image URL referenced in the previous document and not in the  *)
(* current one, and for no URL that is still referenced or was not         *)
(* referenced before.                                                      *)
(***************************************************************************)
ImageHandlerInstalled == "ImageHandler:text-change" \in Range(listeners)

C9_DeletesRemovedImages == [][(ImageHandlerInstalled' /\ Len(OfKind(out', {"notify:text-change"})) = 1) => Range(Deletes(out')) = Images(doc) \ Images(doc')]_vars

\* u1 was removed and deleted while u2, still referenced, was not
C9_Witness == op = "edit" /\ ImageHandlerInstalled /\ Deletes(out) = <<"u1">> /\ doc = <<"u2">>

(***************************************************************************)
(* C10: on one content-change notification at most one delete call is made *)
(* per distinct image URL, also when the previous document referenced the  *)
(* URL several times and every occurrence was removed.                     *)
(***************************************************************************)
C10_OneDeletePerUrl == \A i \in 1..Len(out) : out[i].kind = "notify:text-change" => \A j, k \in 1..Len(Deletes(Segment(out, i))) : j # k => Deletes(Segment(out, i))[j] # Deletes(Segment(out, i))[k]

(***************************************************************************)
(* C11: if the upload is rejected, the custom image handler inserts no     *)
(* image embed and does not move the selection: it leaves the document as  *)
(* it was, starts no second upload, and the rejection leaves the handler   *)
(* as a rejected promise.                                                  *)
(***************************************************************************)
C11_RejectedUploadInsertsNothing == [][
    /\ (pending # NoUpload /\ op' = "uploadRejected") => (doc' = doc /\ selection' = selection /\ pending' = NoUpload /\ Kinds(out') = <<"reject:onchange">>)
    /\ (pending = NoUpload /\ pending' # NoUpload) => (doc' = doc /\ OfKind(out', {"insertEmbed", "setSelection"}) = <<>> /\ Len(OfKind(out', {"ImageService.upload"})) = 1)
    ]_vars

C11_Witness == op = "uploadRejected" /\ pending = NoUpload /\ doc # <<>> /\ selection = Len(doc)

(***************************************************************************)
(* C13: when a pending upload resolves, the index at which the image embed *)
(* is inserted is the user's cursor position at that moment and lies       *)
(* within the current document, and the selection ends right after the     *)
(* inserted image, whatever edits and selection changes happened while the *)
(* upload was pending.                                                     *)
(***************************************************************************)
Cursor == IF selection = NullRange THEN savedRange ELSE selection

InsertIndex(o) == OfKind(o, {"insertEmbed"})[1].range

C13_InsertAtCurrentCursor == [][(pending # NoUpload /\ op' = "uploadFulfilled") => (InsertIndex(out') = Cursor /\ InsertIndex(out') <= Len(doc) /\ selection' = InsertIndex(out') + 1)]_vars

(***************************************************************************)
(* C14: the two-way binding never loops.  Whatever the component emits is  *)
(* the editor's HTML, so the prop change it causes replaces nothing and    *)
(* leaves nothing pending; a prop change from outside replaces the content *)
(* at most once, and what that replacement emits is again the editor's     *)
(* HTML.                                                                   *)
(***************************************************************************)
Echo == parentContent = InnerHTML(doc)

C14_BindingNeverLoops == [][
    /\ (parentContent' # parentContent /\ op' # "external") => Echo'
    /\ (Echo /\ parentContent # modelValue /\ op' \notin {"external", "watch"}) => (Echo' /\ Pastes(out') = <<>>)
    /\ (modelValue' # modelValue) =>
        /\ Len(Pastes(out')) <= 1
        /\ (quill # "null" /\ Echo) => (Pastes(out') = <<>> /\ parentContent' = modelValue')
        /\ parentContent' = modelValue' \/ (Pastes(out') # <<>> /\ Echo')
    ]_vars

\* an outside change replaced the content once; its echo is pending
C14_Witness == op = "watch" /\ Len(Pastes(out)) = 1 /\ parentContent # modelValue /\ Echo /\ doc # <<>>

(***************************************************************************)
(* C15: loading the initial modelValue during mount emits neither          *)
(* update:modelValue nor text-change, because the component's listener is  *)
(* registered after the initial content replacement; the image handler,    *)
(* constructed with the editor, is notified of the initial load and calls  *)
(* no delete for it.                                                       *)
(***************************************************************************)
C15_InitialLoadEmitsNothing ==
    /\ OfKind(out, ComponentEmits) # <<>> => (pc = "mounted" /\ op # "onMounted")
    /\ (op = "onMounted" /\ pc = "mounted") =>
        /\ OfKind(out, {"ImageService.delete"}) = <<>>
        /\ deletedUrls = {}
        /\ Position(out, "dangerouslyPasteHTML") < Position(out, "on:text-change")
        /\ \A i \in 1..Len(out) : out[i].kind = "notify:text-change" => (Position(out, "new Quill") < i /\ i < Position(out, "on:text-change"))

C15_Witness == op = "onMounted" /\ pc = "mounted" /\ ImageHandlerInstalled /\ Images(doc) # {} /\ OfKind(out, {"notify:text-change"}) # <<>>

(***************************************************************************)
(* C17: images removed from the editor are deleted, and only those: every  *)
(* URL for which a delete call was issued is absent from the current       *)
(* document, also after the URL was removed and inserted again.            *)
(***************************************************************************)
C17_DeletedUrlsNotReferenced == deletedUrls \cap Images(doc) = {}

(***************************************************************************)
(* C12: the soft-break handler always returns false.  Without an editor    *)
(* instance or a range it inserts nothing and leaves the selection alone;  *)
(* otherwise it inserts one br embed at range.index, a second one at the   *)
(* same index exactly when the leaf at range.index is not null and the     *)
(* leaf at range.index + 1 is null or has another parent, and then sets    *)
(* the selection to range.index + 1 silently: 1 or 2 embeds, never more.   *)
(***************************************************************************)
Embeds(o) == OfKind(o, {"insertEmbed"})

Brs(n) == [i \in 1..n |-> "br"]

C12_SoftBreakInsertsOneOrTwo == [][(out' # <<>> /\ out'[1].kind = "softBreakHandler") =>
    LET range == out'[1].range
        leaves == OfKind(out', {"getLeaf"})
        n == Len(Embeds(out'))
    IN  /\ out'[Len(out')] = Entry("return", NoHtml, "false", NullRange)
        /\ IF quill = "null" \/ range = NullRange
           THEN n = 0 /\ doc' = doc /\ selection' = selection /\ Len(out') = 2
           ELSE /\ n \in {1, 2}
                /\ n = 2 <=> (leaves[1].arg # "null" /\ (leaves[2].arg = "null" \/ leaves[1].arg # leaves[2].arg))
                /\ \A i \in 1..n : Embeds(out')[i].arg = "br" /\ Embeds(out')[i].range = range
                /\ doc' = SubSeq(doc, 1, range) \o Brs(n) \o SubSeq(doc, range + 1, Len(doc))
                /\ selection' = range + 1
                /\ OfKind(out', {"setSelection"}) = <<Entry("setSelection", NoHtml, "silent", range + 1)>>
                /\ OfKind(out', {"notify:selection-change"}) = <<>>
                /\ out'[Len(out') - 1].kind = "setSelection"
    ]_vars

\* two embeds were inserted at the end of a block
C12_Witness == op = "softBreak" /\ quill # "null" /\ Len(Embeds(out)) = 2 /\ Len(doc) >= 3

(***************************************************************************)
(* C16: after any sequence of clicks at most one context menu is attached  *)
(* to the page and contextMenuEl is non-null exactly when it is attached;  *)
(* at most one image carries image-selected; a click on an image leaves    *)
(* exactly that image selected with the menu open; a click on non-image    *)
(* editor content or outside the menu leaves no image selected and the     *)
(* menu closed.                                                            *)
(***************************************************************************)
C16_MenuAndSelection ==
    /\ attachedMenus <= 1
    /\ contextMenuEl # "null" <=> attachedMenus = 1
    /\ Cardinality(selectedImgs) <= 1
    /\ op = "click:image" => (selectedImgs = {out[1].range} /\ contextMenuEl # "null")
    /\ op \in {"click:editor", "click:outside"} => (selectedImgs = {} /\ contextMenuEl = "null")

====
